---- MODULE Spec2Model ----
(***************************************************************************)
(* Model of the tree-sequence simplifier of simplify_algorithms.py         *)
(* (class Simplifier): segment chains, the ancestry map A, the overlap map *)
(* S, the heap H, the output tables and the squash buffer.                 *)
(*                                                                         *)
(* Conventions.  Node ids and output ids are 0-based as in the source; a   *)
(* table is a sequence, so the row of id k is table[k + 1].  Segments live *)
(* in the sequence segs and are named by their index; 0 stands for None.   *)
(* last_edgeset = <<>> stands for None.                                    *)
(***************************************************************************)
EXTENDS Integers, Sequences, FiniteSets, TLC

VARIABLES
    ts,                   \* the input tree sequence (self.ts)
    sample,               \* the list of sample input ids (self.sample)
    segs,                 \* every Segment object allocated so far
    num_used_segments,    \* self.num_used_segments
    A,                    \* self.A : input id -> head segment
    S,                    \* self.S : coordinate -> overlap count
    node_table,           \* self.node_table
    edgeset_table,        \* self.edgeset_table
    last_edgeset,         \* self.last_edgeset
    sites,                \* self.sites : position -> site
    num_output_nodes,     \* self.num_output_nodes
    num_output_sites,     \* self.num_output_sites
    num_output_mutations, \* self.num_output_mutations
    M,                    \* output id -> input id (the mapping of lines 115-116)
    site_table,           \* the SiteTable built by simplify
    mutation_table,       \* the MutationTable built by simplify
    pc,                   \* position in simplify
    pidx,                 \* index into the_parents
    eidx,                 \* remove_ancestry: index of the current edgeset
    cidx,                 \* remove_ancestry: index of the current child
    H,                    \* the heap of chain heads
    coalescence,          \* merge_labeled_ancestors: local
    z,                    \* merge_labeled_ancestors: local
    u,                    \* merge_labeled_ancestors: local (-1 is None)
    calls,                \* record of the last record_* calls of a step
    drv,                  \* the caller of simplify
    tsim,                 \* a TreeSimulator object (trees.py), <<>> when none
    nwk                   \* a running TreeSequence.newick_trees(), <<>> when none

vars == <<ts, sample, segs, num_used_segments, A, S, node_table,
          edgeset_table, last_edgeset, sites, num_output_nodes,
          num_output_sites, num_output_mutations, M, site_table,
          mutation_table, pc, pidx, eidx, cidx, H, coalescence, z, u,
          calls, drv, tsim, nwk>>

----------------------------------------------------------------------------
(* Bounds and program constants *)

MaxSampleLen == 4

NODE_IS_SAMPLE == 1

----------------------------------------------------------------------------
(* Generic helpers *)

Min(a, b) == IF a < b THEN a ELSE b

Range(s) == {s[i] : i \in 1..Len(s)}

\* bitwise and with a one-bit mask: flags & bit
BitAnd(flags, bit) == IF (flags \div bit) % 2 = 1 THEN bit ELSE 0

RECURSIVE InsertSorted(_, _)
InsertSorted(s, v) ==
    IF s = <<>> THEN <<v>>
    ELSE IF v < Head(s) THEN <<v>> \o s
    ELSE <<Head(s)>> \o InsertSorted(Tail(s), v)

\* sorted() left out: the list as it comes
Sorted_unsorted(s) == s

\* sorted(children)
RECURSIVE Sorted(_)
Sorted(s) == IF s = <<>> THEN <<>> ELSE InsertSorted(Sorted(Tail(s)), Head(s))

\* the sequences without repetition over a set, of length at most k
RECURSIVE DistinctSeqs(_, _)
DistinctSeqs(set, k) ==
    IF k = 0 THEN {<<>>}
    ELSE LET shorter == DistinctSeqs(set, k - 1)
         IN shorter \cup
            UNION {{Append(s, v) : v \in set \ Range(s)} : s \in shorter}

----------------------------------------------------------------------------
(* Input tree sequences.  A tree sequence is a record                      *)
(*   m        : sequence_length                                            *)
(*   nodes    : rows (flags, time, population), row of id k at k + 1       *)
(*   edgesets : rows (left, right, parent, children)                       *)
(*   sites    : rows (position, ancestral_state, mutations), a mutation    *)
(*              being (node, derived_state)                                *)

Nd(f, t, p) == [flags |-> f, time |-> t, population |-> p]

Es(l, r, p, c) == [left |-> l, right |-> r, parent |-> p, children |-> c]

St(pos, anc, muts) == [position |-> pos, ancestral_state |-> anc, mutations |-> muts]

Mu(n, d) == [node |-> n, derived_state |-> d]

\* four leaves coalescing pairwise, one tree; a mutation on the internal
\* node 4 at position 3 and one on the leaf 0 at position 7
TsPairs ==
    [m |-> 10,
     nodes |-> <<Nd(1, 0, 0), Nd(1, 0, 0), Nd(1, 0, 1), Nd(1, 0, 1),
                 Nd(0, 1, 0), Nd(0, 1, 1), Nd(0, 2, 0)>>,
     edgesets |-> <<Es(0, 10, 4, <<0, 1>>), Es(0, 10, 5, <<2, 3>>),
                    Es(0, 10, 6, <<4, 5>>)>>,
     sites |-> <<St(3, 0, <<Mu(4, 1)>>), St(7, 0, <<Mu(0, 1)>>)>>]

\* one parent whose edgesets abut with the same children
TsAbut ==
    [m |-> 10,
     nodes |-> <<Nd(1, 0, 0), Nd(3, 0, 0), Nd(0, 0, 0), Nd(0, 0, 0), Nd(2, 1, 0)>>,
     edgesets |-> <<Es(0, 5, 4, <<0, 1>>), Es(5, 10, 4, <<0, 1>>)>>,
     sites |-> <<>>]

\* two trees whose intervals split the edgesets of both parents
TsSplit ==
    [m |-> 10,
     nodes |-> <<Nd(1, 0, 0), Nd(1, 0, 0), Nd(1, 0, 0), Nd(0, 3, 0),
                 Nd(0, 1, 0), Nd(0, 2, 0)>>,
     edgesets |-> <<Es(0, 5, 4, <<0, 1>>), Es(5, 10, 4, <<0, 2>>),
                    Es(0, 5, 5, <<2, 4>>), Es(5, 10, 5, <<1, 4>>)>>,
     sites |-> <<St(5, 0, <<Mu(4, 1)>>)>>]

\* an internal node (2) that carries the sample flag
TsInner ==
    [m |-> 10,
     nodes |-> <<Nd(1, 0, 0), Nd(1, 0, 0), Nd(1, 1, 0), Nd(1, 0, 1), Nd(0, 2, 1)>>,
     edgesets |-> <<Es(0, 10, 2, <<0, 1>>), Es(0, 10, 4, <<2, 3>>)>>,
     sites |-> <<>>]

\* a flagged node (3) that is a parent on [0,5) and a leaf on [5,10)
TsInnerPart ==
    [m |-> 10,
     nodes |-> <<Nd(1, 0, 0), Nd(1, 0, 0), Nd(1, 0, 0), Nd(1, 1, 0),
                 Nd(0, 2, 0), Nd(0, 3, 0)>>,
     edgesets |-> <<Es(0, 5, 3, <<0, 1>>), Es(5, 10, 4, <<0, 1>>),
                    Es(0, 5, 5, <<2, 3>>), Es(5, 10, 5, <<2, 3, 4>>)>>,
     sites |-> <<>>]

\* node ids that do not follow the order of the times
TsOrder ==
    [m |-> 10,
     nodes |-> <<Nd(1, 0, 0), Nd(1, 0, 0), Nd(1, 0, 0), Nd(0, 2, 0), Nd(0, 1, 0)>>,
     edgesets |-> <<Es(0, 10, 4, <<0, 1>>), Es(0, 10, 3, <<2, 4>>)>>,
     sites |-> <<>>]

\* five trees; node 3 is a parent on [0,4) and [6,10) only, and node 5
\* takes the part [1,3) of its ancestry
TsGaps ==
    [m |-> 10,
     nodes |-> <<Nd(1, 0, 0), Nd(1, 0, 0), Nd(1, 0, 0), Nd(0, 1, 0),
                 Nd(0, 2, 0), Nd(0, 3, 0), Nd(0, 4, 0)>>,
     edgesets |-> <<Es(0, 4, 3, <<0, 1>>), Es(6, 10, 3, <<0, 1>>),
                    Es(4, 6, 4, <<0, 1>>),
                    Es(1, 3, 5, <<2, 3>>),
                    Es(0, 1, 6, <<2, 3>>), Es(3, 4, 6, <<2, 3>>),
                    Es(4, 6, 6, <<2, 4>>), Es(6, 10, 6, <<2, 3>>)>>,
     sites |-> <<>>]

\* five leaves and two parents with three children each
TsMulti ==
    [m |-> 10,
     nodes |-> <<Nd(1, 0, 0), Nd(1, 0, 0), Nd(1, 0, 0), Nd(1, 0, 0), Nd(1, 0, 0),
                 Nd(0, 1, 0), Nd(0, 2, 0)>>,
     edgesets |-> <<Es(0, 10, 5, <<0, 1, 2>>), Es(0, 10, 6, <<3, 4, 5>>)>>,
     sites |-> <<>>]

\* node 4 is the parent of 0 and 1 on [0,5) and of 0 and 3 on [5,10), and
\* a child of 5 on [0,10) next to 2: the two children of that edgeset have
\* ancestry that ends at different coordinates
TsUneven ==
    [m |-> 10,
     nodes |-> <<Nd(1, 0, 0), Nd(1, 0, 0), Nd(1, 0, 0), Nd(1, 0, 0),
                 Nd(0, 1, 0), Nd(0, 2, 0), Nd(0, 3, 0)>>,
     edgesets |-> <<Es(0, 5, 4, <<0, 1>>), Es(5, 10, 4, <<0, 3>>),
                    Es(0, 10, 5, <<2, 4>>),
                    Es(0, 5, 6, <<3, 5>>), Es(5, 10, 6, <<1, 5>>)>>,
     sites |-> <<>>]

Catalogue == <<TsPairs, TsAbut, TsSplit, TsInner, TsInnerPart, TsOrder,
               TsGaps, TsMulti, TsUneven>>

NodeIds(t) == 0..(Len(t.nodes) - 1)

NodeOf(t, id) == t.nodes[id + 1]

\* ts.samples(): the ids of the nodes that carry the sample flag
Samples(t) == {id \in NodeIds(t) : BitAnd(NodeOf(t, id).flags, NODE_IS_SAMPLE) # 0}

\* the sample lists a caller draws: random.sample(ts.samples(), sample_size)
SampleLists(t) == {s \in DistinctSeqs(Samples(t), MaxSampleLen) : Len(s) >= 1}

----------------------------------------------------------------------------
(* Segments and the segment pool.  mem is a record holding the fields      *)
(* segs and used (num_used_segments), possibly among others.               *)

None == 0

Seg(left, right, node, prev, next) ==
    [left |-> left, right |-> right, node |-> node, prev |-> prev, next |-> next]

\* the segment alloc_segment returns is the one appended last
alloc_segment(mem, left, right, node, prev, next) ==
    [mem EXCEPT !.segs = Append(@, Seg(left, right, node, prev, next)),
                !.used = @ + 1]

free_segment(mem, x) == [mem EXCEPT !.used = @ - 1]

----------------------------------------------------------------------------
(* Output tables *)

\* nt holds node_table, num_output_nodes and M
record_sample_node(nt, t, input_id) ==
    LET node == NodeOf(t, input_id)
        flags == BitAnd(node.flags, NODE_IS_SAMPLE)
    IN [nt EXCEPT !.node_table = Append(@, Nd(flags, node.time, node.population)),
                  !.num_output_nodes = @ + 1,
                  !.M = Append(@, input_id)]

\* list.index: the position of the first occurrence, 0-based
IndexOf(s, v) == (CHOOSE i \in 1..Len(s) : s[i] = v /\ \A j \in 1..(i - 1) : s[j] # v) - 1

\* the node looked up under the output id instead of the input id
check_or_record_node_by_output_id(nt, samp, t, input_id) ==
    IF input_id \notin Range(samp)
    THEN LET node == NodeOf(t, nt.num_output_nodes)
         IN [node_table |-> Append(nt.node_table,
                                   Nd(node.flags, node.time, node.population)),
             num_output_nodes |-> nt.num_output_nodes + 1,
             M |-> Append(nt.M, input_id),
             out |-> nt.num_output_nodes]
    ELSE [node_table |-> nt.node_table,
          num_output_nodes |-> nt.num_output_nodes,
          M |-> nt.M,
          out |-> IndexOf(samp, input_id)]

\* the test for a sample left out: every parent gets a new row
check_or_record_node_always_adds(nt, samp, t, input_id) ==
    LET node == NodeOf(t, input_id)
    IN [node_table |-> Append(nt.node_table,
                              Nd(node.flags, node.time, node.population)),
        num_output_nodes |-> nt.num_output_nodes + 1,
        M |-> Append(nt.M, input_id),
        out |-> nt.num_output_nodes]

\* the output id read after the counter was incremented, without the - 1
check_or_record_node_off_by_one(nt, samp, t, input_id) ==
    IF input_id \notin Range(samp)
    THEN LET node == NodeOf(t, input_id)
         IN [node_table |-> Append(nt.node_table,
                                   Nd(node.flags, node.time, node.population)),
             num_output_nodes |-> nt.num_output_nodes + 1,
             M |-> Append(nt.M, input_id),
             out |-> nt.num_output_nodes + 1]
    ELSE [node_table |-> nt.node_table,
          num_output_nodes |-> nt.num_output_nodes,
          M |-> nt.M,
          out |-> IndexOf(samp, input_id)]

\* returns the tables and the output id (field out)
check_or_record_node(nt, samp, t, input_id) ==
    IF input_id \notin Range(samp)
    THEN LET node == NodeOf(t, input_id)
         IN [node_table |-> Append(nt.node_table,
                                   Nd(node.flags, node.time, node.population)),
             num_output_nodes |-> nt.num_output_nodes + 1,
             M |-> Append(nt.M, input_id),
             out |-> nt.num_output_nodes]
    ELSE [node_table |-> nt.node_table,
          num_output_nodes |-> nt.num_output_nodes,
          M |-> nt.M,
          out |-> IndexOf(samp, input_id)]

\* the squash test left out: the pending edgeset is always flushed
record_edgeset_nosquash(buf, left, right, parent, children) ==
    LET sorted_children == Sorted(children)
    IN IF buf.last_edgeset = <<>>
       THEN [buf EXCEPT !.last_edgeset = Es(left, right, parent, sorted_children)]
       ELSE [buf EXCEPT !.edgeset_table = Append(@, buf.last_edgeset),
                        !.last_edgeset = Es(left, right, parent, sorted_children)]

\* line 151 left out: the children are stored in the order they were popped
record_edgeset_unsorted(buf, left, right, parent, children) ==
    IF buf.last_edgeset = <<>>
    THEN [buf EXCEPT !.last_edgeset = Es(left, right, parent, children)]
    ELSE IF /\ buf.last_edgeset.parent = parent
            /\ buf.last_edgeset.children = children
            /\ buf.last_edgeset.right = left
         THEN [buf EXCEPT !.last_edgeset =
                   Es(buf.last_edgeset.left, right, parent, children)]
         ELSE [buf EXCEPT !.edgeset_table = Append(@, buf.last_edgeset),
                          !.last_edgeset = Es(left, right, parent, children)]

\* buf holds last_edgeset and edgeset_table
record_edgeset(buf, left, right, parent, children) ==
    LET sorted_children == Sorted(children)
        last == buf.last_edgeset
    IN IF last = <<>>
       THEN [buf EXCEPT !.last_edgeset = Es(left, right, parent, sorted_children)]
       ELSE IF /\ last.parent = parent
               /\ last.children = sorted_children
               /\ last.right = left
            THEN [buf EXCEPT !.last_edgeset =
                      Es(last.left, right, parent, sorted_children)]
            ELSE [buf EXCEPT !.edgeset_table = Append(@, last),
                             !.last_edgeset =
                                 Es(left, right, parent, sorted_children)]

\* the input mutations record_mutations visits: (site index, mutation index)
MatchingMutations(t, input_id, left, right) ==
    {sm \in UNION {{<<i, k>> : k \in 1..Len(t.sites[i].mutations)} :
                       i \in 1..Len(t.sites)} :
        /\ t.sites[sm[1]].position >= left
        /\ t.sites[sm[1]].position < right
        /\ t.sites[sm[1]].mutations[sm[2]].node = input_id}

\* mt holds sites, num_output_sites and num_output_mutations.  The site and
\* the mutation objects built here are not stored in self.sites.
record_mutations(mt, t, input_id, left, right, output_id) ==
    LET match == MatchingMutations(t, input_id, left, right)
        fresh == {sm \in match : t.sites[sm[1]].position \notin DOMAIN mt.sites}
    IN [mt EXCEPT !.num_output_sites = @ + Cardinality(fresh),
                  !.num_output_mutations = @ + Cardinality(match)]

\* TRUE when update_ancestral_state reaches line 214, which raises
update_ancestral_state_raises(sm, t, input_id, left, right) ==
    \E i \in 1..Len(t.sites) :
        /\ t.sites[i].position \in DOMAIN sm
        /\ t.sites[i].position >= left
        /\ t.sites[i].position < right

----------------------------------------------------------------------------
(* The overlap map *)

floor_key(Sm, k) == CHOOSE j \in DOMAIN Sm : j <= k /\ \A i \in DOMAIN Sm : i <= k => i <= j

succ_key(Sm, k) == CHOOSE j \in DOMAIN Sm : j > k /\ \A i \in DOMAIN Sm : i > k => j <= i

\* S[k] = v, which adds the key when it is missing
SetKey(Sm, k, v) == [i \in DOMAIN Sm \cup {k} |-> IF i = k THEN v ELSE Sm[i]]

----------------------------------------------------------------------------
(* The log of the calls of record_mutations and record_edgeset that one    *)
(* step makes (history, not a field of the Simplifier)                     *)

NoCalls == [mutations |-> <<>>, edgesets |-> <<>>]

LogMutations(st, input_id, left, right, output_id) ==
    [st EXCEPT !.calls.mutations = Append(@,
        [input_id |-> input_id, left |-> left, right |-> right,
         output_id |-> output_id])]

LogEdgeset(st, left, right, parent, children) ==
    [st EXCEPT !.calls.edgesets = Append(@, Es(left, right, parent, children))]

----------------------------------------------------------------------------
(* The record st that the operators below transform: the fields of the     *)
(* Simplifier, the locals of remove_ancestry (x, y, w) and the locals of   *)
(* merge_labeled_ancestors (coalescence, z, u, alpha, l, r, r_max,         *)
(* children); raised tells that an exception left the method.              *)

NoNode == -1

Fields(sg, used, Am, Sm, heap, nt, nn, Mm, et, le, sm, ns, nm, co, zz, uu) ==
    [segs |-> sg, used |-> used, A |-> Am, S |-> Sm, H |-> heap,
     node_table |-> nt, num_output_nodes |-> nn, M |-> Mm,
     edgeset_table |-> et, last_edgeset |-> le,
     sites |-> sm, num_output_sites |-> ns, num_output_mutations |-> nm,
     calls |-> NoCalls, coalescence |-> co, z |-> zz, u |-> uu,
     alpha |-> None, raised |-> FALSE, x |-> None, y |-> None, w |-> None,
     l |-> 0, r |-> 0, r_max |-> 0, children |-> <<>>]

----------------------------------------------------------------------------
(* Simplifier.__init__ *)

\* lines 76-78: the chain of one sample, the segment allocated last
InitSegment(st, sample_id) == [st EXCEPT !.A = SetKey(@, sample_id, Len(st.segs))]

\* lines 80-82: the mutations above one sample
InitMutations(st, t, sample_id) ==
    LogMutations(
        record_mutations(st, t, sample_id, 0, t.m, st.num_output_nodes - 1),
        sample_id, 0, t.m, st.num_output_nodes - 1)

\* lines 73-82: the loop over the samples
RECURSIVE InitSamples(_, _, _, _)
InitSamples(st, t, samp, j) ==
    IF j > Len(samp) THEN st
    ELSE InitSamples(
             InitMutations(
                 record_sample_node(
                     InitSegment(alloc_segment(st, 0, t.m, j - 1, None, None),
                                 samp[j]),
                     t, samp[j]),
                 t, samp[j]),
             t, samp, j + 1)

Construct(t, samp) ==
    [InitSamples(Fields(<<>>, 0, <<>>, <<>>, {}, <<>>, 0, <<>>, <<>>, <<>>,
                        <<>>, 0, 0, FALSE, None, NoNode), t, samp, 1)
        EXCEPT !.S = SetKey(SetKey(<<>>, 0, Len(samp)), t.m, -1)]

----------------------------------------------------------------------------
(* Simplifier.simplify: the order of the parents *)

\* (time, id) < (time, id) as Python compares tuples
ParentBefore(t, a, b) ==
    \/ NodeOf(t, a).time < NodeOf(t, b).time
    \/ NodeOf(t, a).time = NodeOf(t, b).time /\ a < b

RECURSIVE InsertParent(_, _, _)
InsertParent(t, s, v) ==
    IF s = <<>> THEN <<v>>
    ELSE IF ParentBefore(t, v, Head(s)) THEN <<v>> \o s
    ELSE <<Head(s)>> \o InsertParent(t, Tail(s), v)

RECURSIVE SortParents(_, _)
SortParents(t, k) ==
    IF k < 0 THEN <<>> ELSE InsertParent(t, SortParents(t, k - 1), k)

\* the input ids of the_parents after the_parents.sort()
the_parents(t) == SortParents(t, Len(t.nodes) - 1)

\* the edgesets of one parent, in the order of ts.edgesets()
EdgesetsOf(t, input_id) ==
    SelectSeq(t.edgesets, LAMBDA e : e.parent = input_id)

----------------------------------------------------------------------------
(* Simplifier.remove_ancestry, for one child of one edgeset *)

\* the truncation y.right = edgeset.left of line 324 left out
SplitLeft_keeps_right(st, y, e) ==
    [st EXCEPT !.segs[y].next = None, !.x = Len(st.segs), !.y = y]

\* lines 322-325, st.x being the segment alloc_segment has just returned
\* and y the one it was cut from
SplitLeft(st, y, e) ==
    [st EXCEPT !.segs[y].right = e.left, !.segs[y].next = None,
               !.x = Len(st.segs), !.y = y]

\* lines 316-327
RECURSIVE LeftOfEdgeset(_, _)
LeftOfEdgeset(st, e) ==
    IF st.x # None /\ st.segs[st.x].left < e.left
    THEN IF st.segs[st.x].right > e.left
         THEN LeftOfEdgeset(
                  SplitLeft(alloc_segment(st, e.left, st.segs[st.x].right,
                                          st.segs[st.x].node, None,
                                          st.segs[st.x].next),
                            st.x, e), e)
         ELSE LeftOfEdgeset([st EXCEPT !.x = st.segs[st.x].next, !.y = st.x], e)
    ELSE st

\* lines 342-348, next_w being the segment allocated last
LinkOutput(st) ==
    IF st.w = None
    THEN [st EXCEPT !.H = @ \cup {Len(st.segs)}, !.w = Len(st.segs)]
    ELSE [st EXCEPT !.segs[st.w].next = Len(st.segs), !.w = Len(st.segs)]

\* lines 331-359
RECURSIVE InsideEdgeset(_, _)
RECURSIVE AdvanceInside(_, _)
InsideEdgeset(st, e) ==
    IF st.x # None /\ st.segs[st.x].left < e.right
    THEN AdvanceInside(
             LinkOutput(alloc_segment(st, st.segs[st.x].left,
                                      Min(e.right, st.segs[st.x].right),
                                      st.segs[st.x].node, st.w, None)), e)
    ELSE st

\* lines 349-359
AdvanceInside(st, e) ==
    IF st.segs[st.x].right <= Min(e.right, st.segs[st.x].right)
    THEN InsideEdgeset(
             [free_segment(st, st.x) EXCEPT !.x = st.segs[st.x].next], e)
    ELSE [st EXCEPT !.segs[st.x].left = e.right]

\* remove the key of a dict
DelKey(f, k) == [i \in DOMAIN f \ {k} |-> f[i]]

\* the link y.next = x of line 364 left out
SetNext_skipped(sg, y, x) == sg

\* lines 363-364
SetNext(sg, y, x) == IF y # None THEN [sg EXCEPT ![y].next = x] ELSE sg

\* lines 365-366
SetPrev(sg, x, y) == IF x # None THEN [sg EXCEPT ![x].prev = y] ELSE sg

\* lines 367-371
Rehead(Am, child, x, y) ==
    IF y # None THEN Am
    ELSE IF x = None THEN DelKey(Am, child) ELSE [Am EXCEPT ![child] = x]

\* lines 361-371
Stitch(st, child) ==
    IF st.w = None THEN st
    ELSE [st EXCEPT !.segs = SetPrev(SetNext(@, st.y, st.x), st.x, st.y),
                    !.A = Rehead(@, child, st.x, st.y)]

\* lines 310-371
RemoveChild(st, e, child) ==
    IF child \notin DOMAIN st.A THEN st
    ELSE Stitch(
             InsideEdgeset(
                 LeftOfEdgeset(
                     [st EXCEPT !.x = st.A[child], !.y = None, !.w = None], e),
                 e),
             child)

----------------------------------------------------------------------------
(* Simplifier.merge_labeled_ancestors, one iteration of its loop *)

\* the heap turned upside down: the heads with the greatest left come first
MinLeft_takes_greatest(sg, heap) ==
    CHOOSE l \in {sg[h].left : h \in heap} : \A h \in heap : l >= sg[h].left

MinLeft(sg, heap) == CHOOSE l \in {sg[h].left : h \in heap} :
                         \A h \in heap : l <= sg[h].left

RECURSIVE MinRight(_, _, _)
MinRight(sg, X, r_max) ==
    IF X = <<>> THEN r_max
    ELSE MinRight(sg, Tail(X), Min(r_max, sg[Head(X)].right))

\* the orders in which heappop can deliver the heads with the least left:
\* tuples (left, segment) compare by left and then by Segment.__lt__, which
\* orders by right and leaves equal (left, right) unordered
DrainOrders(sg, heap) ==
    {q \in DistinctSeqs({h \in heap : sg[h].left = MinLeft(sg, heap)},
                        Cardinality(heap)) :
        /\ Len(q) = Cardinality({h \in heap : sg[h].left = MinLeft(sg, heap)})
        /\ \A i, j \in 1..Len(q) : i < j => sg[q[i]].right <= sg[q[j]].right}

\* lines 402-403
TightenRMax(st) ==
    IF st.H # {} THEN [st EXCEPT !.r_max = Min(@, MinLeft(st.segs, st.H))]
    ELSE st

\* lines 394-403, X being the heads popped
MergeBounds(st, t, X) ==
    TightenRMax([st EXCEPT !.H = st.H \ Range(X), !.alpha = None,
                           !.l = MinLeft(st.segs, st.H),
                           !.r_max = MinRight(st.segs, X, t.m + 1)])

\* lines 411-413 and 449-451: push the segment after x, if any
PushNext(st, x) ==
    IF st.segs[x].next # None THEN [st EXCEPT !.H = @ \cup {st.segs[x].next}]
    ELSE st

\* lines 408-409, alpha being the segment allocated last
SplitSingleton(st, x) ==
    [st EXCEPT !.segs[x].left = st.segs[Len(st.segs)].right,
               !.H = @ \cup {x}, !.alpha = Len(st.segs)]

\* lines 404-415: a single head
MergeSingleton(st, x) ==
    IF st.H # {} /\ MinLeft(st.segs, st.H) < st.segs[x].right
    THEN SplitSingleton(
             alloc_segment(st, st.segs[x].left, MinLeft(st.segs, st.H),
                           st.segs[x].node, None, None), x)
    ELSE [PushNext(st, x) EXCEPT !.segs[x].next = None, !.alpha = x]

\* lines 418-420, nt being what check_or_record_node returned
AdoptNode(st, nt) ==
    [st EXCEPT !.coalescence = TRUE, !.u = nt.out,
               !.node_table = nt.node_table,
               !.num_output_nodes = nt.num_output_nodes, !.M = nt.M]

\* lines 417-420
RecordParent(st, t, samp, input_id) ==
    IF ~st.coalescence
    THEN AdoptNode(st, check_or_record_node(st, samp, t, input_id))
    ELSE st

\* lines 424-426 and 427-429
AddKey(Sm, k) ==
    IF k \notin DOMAIN Sm THEN SetKey(Sm, k, Sm[floor_key(Sm, k)]) ELSE Sm

\* lines 424-429
SplitOverlapMap(st) == [st EXCEPT !.S = AddKey(AddKey(@, st.l), st.r_max)]

\* lines 438-440
RECURSIVE WalkOverlap(_, _)
WalkOverlap(st, k) ==
    IF st.r < st.r_max /\ st.S[st.r] # k
    THEN WalkOverlap([st EXCEPT !.S[st.r] = @ - (k - 1),
                                !.r = succ_key(st.S, st.r)], k)
    ELSE st

\* line 441, alpha being the segment allocated last
SetAlpha(st) == [st EXCEPT !.alpha = Len(st.segs)]

\* line 441
AllocAlpha(st) == SetAlpha(alloc_segment(st, st.l, st.r, st.u, None, None))

\* lines 431-441, k being len(X)
CountOverlap(st, t, input_id, k) ==
    IF st.S[st.l] = k
    THEN [st EXCEPT !.S[st.l] = 0,
                    !.r = succ_key(st.S, st.l),
                    !.raised = update_ancestral_state_raises(
                                   st.sites, t, input_id, st.l,
                                   succ_key(st.S, st.l))]
    ELSE AllocAlpha(WalkOverlap([st EXCEPT !.r = st.l], k))

\* lines 445-446
CollectChild(st, x) ==
    IF st.segs[x].node # st.u
    THEN [st EXCEPT !.children = Append(@, st.segs[x].node)]
    ELSE st

\* line 452 left out: a head that reaches beyond r is pushed back as it is
AdvanceHead_keeps_left(st, x) ==
    IF st.segs[x].right = st.r THEN PushNext(free_segment(st, x), x)
    ELSE IF st.segs[x].right > st.r
         THEN [st EXCEPT !.H = @ \cup {x}]
         ELSE st

\* lines 447-454
AdvanceHead(st, x) ==
    IF st.segs[x].right = st.r THEN PushNext(free_segment(st, x), x)
    ELSE IF st.segs[x].right > st.r
         THEN [st EXCEPT !.segs[x].left = st.r, !.H = @ \cup {x}]
         ELSE st

\* lines 444-454
RECURSIVE UpdateHeads(_, _)
UpdateHeads(st, X) ==
    IF X = <<>> THEN st
    ELSE UpdateHeads(AdvanceHead(CollectChild(st, Head(X)), Head(X)), Tail(X))

\* line 455
EmitEdgeset(st) ==
    LogEdgeset(record_edgeset(st, st.l, st.r, st.u, st.children),
               st.l, st.r, st.u, st.children)

\* lines 443-455, skipped when line 435 raised
RecordOverlap(st, X) ==
    IF st.raised THEN st
    ELSE EmitEdgeset(UpdateHeads([st EXCEPT !.children = <<>>], X))

\* line 441 with x.node, the label of the head popped last, in place of u
Relabelled(st, X) ==
    IF st.alpha = None THEN st
    ELSE [st EXCEPT !.segs[st.alpha].node = st.segs[X[Len(X)]].node]

MergeOverlap_child_label(st, t, samp, input_id, X) ==
    RecordOverlap(
        Relabelled(
            CountOverlap(SplitOverlapMap(RecordParent(st, t, samp, input_id)),
                         t, input_id, Len(X)),
            X),
        X)

\* lines 417-455: two or more heads
MergeOverlap(st, t, samp, input_id, X) ==
    RecordOverlap(
        CountOverlap(SplitOverlapMap(RecordParent(st, t, samp, input_id)),
                     t, input_id, Len(X)),
        X)

\* the test z is None left out: alpha always becomes A[input_id]
LinkAlpha_always_sets(st, input_id) ==
    [st EXCEPT !.A = SetKey(@, input_id, st.alpha),
               !.segs[st.alpha].prev = st.z, !.z = st.alpha]

\* lines 459-466
LinkAlpha(st, input_id) ==
    IF st.z = None
    THEN [st EXCEPT !.A = SetKey(@, input_id, st.alpha),
                    !.segs[st.alpha].prev = st.z, !.z = st.alpha]
    ELSE [st EXCEPT !.segs = [@ EXCEPT ![st.z].next = st.alpha,
                                       ![st.alpha].prev = st.z],
                    !.z = st.alpha]

\* line 468
TailMutations(st, t, input_id) ==
    LogMutations(
        record_mutations(st, t, input_id, st.segs[st.alpha].left,
                         st.segs[st.alpha].right, st.segs[st.alpha].node),
        input_id, st.segs[st.alpha].left, st.segs[st.alpha].right,
        st.segs[st.alpha].node)

\* lines 457-468: the tail of the loop
MergeTail(st, t, input_id) ==
    IF st.alpha # None /\ ~st.raised
    THEN TailMutations(LinkAlpha(st, input_id), t, input_id)
    ELSE st

\* the test len(X) == 1 left out: a single head is treated as an overlap
MergeIteration_no_singleton(st, t, samp, input_id, X) ==
    MergeTail(MergeOverlap(MergeBounds(st, t, X), t, samp, input_id, X),
              t, input_id)

\* the branch for a single head left out: it is recorded like an overlap
MergeHeads_single_recorded(st, t, samp, input_id, X) ==
    MergeOverlap(st, t, samp, input_id, X)

\* lines 404-455
MergeHeads(st, t, samp, input_id, X) ==
    IF Len(X) = 1 THEN MergeSingleton(st, X[1])
    ELSE MergeOverlap(st, t, samp, input_id, X)

\* lines 393-468, X being the heads in the order heappop delivers them
MergeIteration(st, t, samp, input_id, X) ==
    MergeTail(MergeHeads(MergeBounds(st, t, X), t, samp, input_id, X),
              t, input_id)

----------------------------------------------------------------------------
(* The state machine *)

\* the fields of the Simplifier and the locals of merge_labeled_ancestors
Cur ==
    Fields(segs, num_used_segments, A, S, H, node_table, num_output_nodes, M,
           edgeset_table, last_edgeset, sites, num_output_sites,
           num_output_mutations, coalescence, z, u)

Install(st) ==
    /\ segs' = st.segs
    /\ num_used_segments' = st.used
    /\ A' = st.A
    /\ S' = st.S
    /\ H' = st.H
    /\ node_table' = st.node_table
    /\ num_output_nodes' = st.num_output_nodes
    /\ M' = st.M
    /\ edgeset_table' = st.edgeset_table
    /\ last_edgeset' = st.last_edgeset
    /\ sites' = st.sites
    /\ num_output_sites' = st.num_output_sites
    /\ num_output_mutations' = st.num_output_mutations
    /\ calls' = st.calls

\* the tree sequence and the sample list are in hand and no Simplifier
\* has been built yet (run_simplify, lines 475-477)
Loaded(t, samp) ==
    /\ ts = t
    /\ sample = samp
    /\ segs = <<>>
    /\ num_used_segments = 0
    /\ A = <<>>
    /\ S = <<>>
    /\ H = {}
    /\ node_table = <<>>
    /\ num_output_nodes = 0
    /\ M = <<>>
    /\ edgeset_table = <<>>
    /\ last_edgeset = <<>>
    /\ sites = <<>>
    /\ num_output_sites = 0
    /\ num_output_mutations = 0
    /\ calls = NoCalls
    /\ site_table = <<>>
    /\ mutation_table = <<>>
    /\ pc = "new"
    /\ pidx = 1
    /\ eidx = 1
    /\ cidx = 1
    /\ coalescence = FALSE
    /\ z = None
    /\ u = NoNode
    /\ tsim = <<>>
    /\ nwk = <<>>

Init ==
    /\ \E i \in 1..Len(Catalogue) :
           \E samp \in SampleLists(Catalogue[i]) :
               Loaded(Catalogue[i], samp)
    /\ drv = [phase |-> "once"]

\* lines 50-86: Simplifier(ts, sample)
New ==
    /\ pc = "new"
    /\ Install(Construct(ts, sample))
    /\ site_table' = <<>>
    /\ mutation_table' = <<>>
    /\ pc' = "loop"
    /\ pidx' = 1
    /\ eidx' = 1
    /\ cidx' = 1
    /\ coalescence' = FALSE
    /\ z' = None
    /\ u' = NoNode
    /\ UNCHANGED <<ts, sample, drv, tsim, nwk>>

\* the parent the main loop is at
input_id == the_parents(ts)[pidx]

\* lines 254-263: the head of the main loop
SimplifyLoop ==
    /\ pc = "loop"
    /\ calls' = NoCalls
    /\ IF pidx > Len(the_parents(ts)) \/ DOMAIN A = {}
       THEN /\ pc' = "flush"
            /\ UNCHANGED <<pidx, eidx, cidx, H>>
       ELSE IF Len(EdgesetsOf(ts, input_id)) > 0
            THEN /\ pc' = "remove"
                 /\ eidx' = 1
                 /\ cidx' = 1
                 /\ H' = {}
                 /\ pidx' = pidx
            ELSE /\ pidx' = pidx + 1
                 /\ UNCHANGED <<pc, eidx, cidx, H>>
    /\ UNCHANGED <<ts, sample, segs, num_used_segments, A, S, node_table,
                   edgeset_table, last_edgeset, sites, num_output_nodes,
                   num_output_sites, num_output_mutations, M, site_table,
                   mutation_table, coalescence, z, u, drv, tsim, nwk>>

\* the edgeset remove_ancestry is at
edgeset == EdgesetsOf(ts, input_id)[eidx]

\* lines 306-371: remove_ancestry for the next child of the next edgeset;
\* after the last one, line 271 enters merge_labeled_ancestors
RemoveAncestryStep ==
    /\ pc = "remove"
    /\ Install(RemoveChild(Cur, edgeset, edgeset.children[cidx]))
    /\ IF cidx < Len(edgeset.children)
       THEN /\ cidx' = cidx + 1
            /\ UNCHANGED <<eidx, pc, coalescence, z, u>>
       ELSE IF eidx < Len(EdgesetsOf(ts, input_id))
            THEN /\ eidx' = eidx + 1
                 /\ cidx' = 1
                 /\ UNCHANGED <<pc, coalescence, z, u>>
            ELSE /\ pc' = "merge"
                 /\ coalescence' = FALSE
                 /\ z' = None
                 /\ u' = NoNode
                 /\ UNCHANGED <<eidx, cidx>>
    /\ UNCHANGED <<ts, sample, site_table, mutation_table, pidx, drv, tsim, nwk>>

\* the state after one iteration; an exception ends the run
InstallMerge(st) ==
    /\ Install(st)
    /\ coalescence' = st.coalescence
    /\ z' = st.z
    /\ u' = st.u
    /\ pc' = IF st.raised THEN "error" ELSE "merge"

\* lines 392-468: one iteration of the loop of merge_labeled_ancestors
MergeStep ==
    /\ pc = "merge"
    /\ H # {}
    /\ \E X \in DrainOrders(segs, H) :
           InstallMerge(MergeIteration(Cur, ts, sample, input_id, X))
    /\ UNCHANGED <<ts, sample, site_table, mutation_table, pidx, eidx, cidx, drv, tsim, nwk>>

\* line 392 with H empty: merge_labeled_ancestors returns to the main loop
MergeReturn ==
    /\ pc = "merge"
    /\ H = {}
    /\ pc' = "loop"
    /\ pidx' = pidx + 1
    /\ coalescence' = FALSE
    /\ z' = None
    /\ u' = NoNode
    /\ calls' = NoCalls
    /\ UNCHANGED <<ts, sample, segs, num_used_segments, A, S, node_table,
                   edgeset_table, last_edgeset, sites, num_output_nodes,
                   num_output_sites, num_output_mutations, M, site_table,
                   mutation_table, eidx, cidx, H, drv, tsim, nwk>>

\* lines 278-294: flush the squash buffer and build the site tables.
\* Unpacking None raises TypeError; line 288 reads self.ancestral_state,
\* which does not exist, as soon as self.sites has a key.
Flush ==
    /\ pc = "flush"
    /\ calls' = NoCalls
    /\ IF last_edgeset = <<>>
       THEN /\ pc' = "error"
            /\ UNCHANGED edgeset_table
       ELSE /\ edgeset_table' = Append(edgeset_table, last_edgeset)
            /\ pc' = IF DOMAIN sites # {} THEN "error" ELSE "done"
    /\ site_table' = <<>>
    /\ mutation_table' = <<>>
    /\ UNCHANGED <<ts, sample, segs, num_used_segments, A, S, node_table,
                   last_edgeset, sites, num_output_nodes, num_output_sites,
                   num_output_mutations, M, pidx, eidx, cidx, H, coalescence,
                   z, u, drv, tsim, nwk>>

Next ==
    \/ New
    \/ SimplifyLoop
    \/ RemoveAncestryStep
    \/ MergeStep
    \/ MergeReturn
    \/ Flush

Spec == Init /\ [][Next]_vars

\* simplify has neither returned nor raised
Running == pc \notin {"done", "error"}

\* simplify runs in one thread that is never suspended for good: weak
\* fairness of Next, WF_vars(Next), spelled out with Running in the place
\* of ENABLED <<Next>>_vars (a step of Next that changes the state can be
\* taken exactly while simplify is running)
SpecFair == Spec /\ ([]<>(~Running) \/ []<><<Next>>_vars)

----------------------------------------------------------------------------
(* A caller that hands Simplifier(ts, sample) a list naming a node twice    *)

MaxDupLen == 3

RECURSIVE AllSeqs(_, _)
AllSeqs(set, k) ==
    IF k = 0 THEN {<<>>}
    ELSE AllSeqs(set, k - 1) \cup
         {Append(s, v) : s \in {q \in AllSeqs(set, k - 1) : Len(q) = k - 1},
                         v \in set}

HasDuplicates(s) == \E i, j \in 1..Len(s) : i < j /\ s[i] = s[j]

\* lists over ts.samples() in which some id occurs more than once
DuplicateLists(t) == {s \in AllSeqs(Samples(t), MaxDupLen) : HasDuplicates(s)}

InitDup ==
    /\ \E i \in 1..Len(Catalogue) :
           \E samp \in DuplicateLists(Catalogue[i]) :
               Loaded(Catalogue[i], samp)
    /\ drv = [phase |-> "once"]

SpecDup == InitDup /\ [][Next]_vars

----------------------------------------------------------------------------
(* A caller that simplifies twice: simplify(simplify(ts0, S), S2) and then  *)
(* simplify(ts0, S2), for S2 drawn from S                                   *)

MaxNestedLen == 3

\* the tree sequence simplify returns: the output tables, the sequence
\* length of the input, each site with its mutations
LoadTables(t, nodes, edgesets, site_rows, mutation_rows) ==
    [m |-> t.m,
     nodes |-> nodes,
     edgesets |-> edgesets,
     sites |-> [k \in 1..Len(site_rows) |->
                   St(site_rows[k].position, site_rows[k].ancestral_state,
                      SelectSeq(mutation_rows, LAMBDA mu : mu.site = k - 1))]]

\* what a call of simplify gave: the tables, or nothing when it raised
Result ==
    IF pc = "done"
    THEN [ok |-> TRUE, nodes |-> node_table, edgesets |-> edgeset_table]
    ELSE [ok |-> FALSE, nodes |-> <<>>, edgesets |-> <<>>]

InitNested ==
    /\ \E i \in 1..Len(Catalogue) :
           \E samp \in {s \in SampleLists(Catalogue[i]) : Len(s) >= 2} :
               \E sub \in {s \in DistinctSeqs(Range(samp), MaxNestedLen) :
                              Len(s) >= 2} :
                   /\ Loaded(Catalogue[i], samp)
                   /\ drv = [phase |-> "first", ts0 |-> Catalogue[i],
                             S |-> samp, S2 |-> sub,
                             nested |-> [ok |-> FALSE, nodes |-> <<>>,
                                         edgesets |-> <<>>]]

\* the ids that the nodes of S2 have in the output of simplify(ts0, S)
NestedSample == [j \in 1..Len(drv.S2) |-> IndexOf(drv.S, drv.S2[j])]

\* simplify(ts0, S) has returned: simplify its output over S2
SimplifyNested ==
    /\ pc = "done"
    /\ drv.phase = "first"
    /\ ts' = LoadTables(ts, node_table, edgeset_table, site_table, mutation_table)
    /\ sample' = NestedSample
    /\ pc' = "new"
    /\ drv' = [drv EXCEPT !.phase = "nested"]
    /\ UNCHANGED <<segs, num_used_segments, A, S, node_table, edgeset_table,
                   last_edgeset, sites, num_output_nodes, num_output_sites,
                   num_output_mutations, M, site_table, mutation_table, pidx,
                   eidx, cidx, H, coalescence, z, u, calls, tsim, nwk>>

\* the nested call has ended: keep what it gave and simplify ts0 over S2
SimplifyDirect ==
    /\ pc \in {"done", "error"}
    /\ drv.phase = "nested"
    /\ ts' = drv.ts0
    /\ sample' = drv.S2
    /\ pc' = "new"
    /\ drv' = [drv EXCEPT !.phase = "direct", !.nested = Result]
    /\ UNCHANGED <<segs, num_used_segments, A, S, node_table, edgeset_table,
                   last_edgeset, sites, num_output_nodes, num_output_sites,
                   num_output_mutations, M, site_table, mutation_table, pidx,
                   eidx, cidx, H, coalescence, z, u, calls, tsim, nwk>>

NextNested ==
    \/ Next
    \/ SimplifyNested
    \/ SimplifyDirect

SpecNested == InitNested /\ [][NextNested]_vars

----------------------------------------------------------------------------
(* TreeSimulator (trees.py): run and reset.  A numeric argument is a record *)
(* (isint, v), so that the isinstance tests of _set_environment_defaults   *)
(* have something to reject.  None is 0 for the block sizes and            *)
(* max_memory, NoSeed for the random seed, and <<>> for _ll_sim, which     *)
(* holds <<simulator>> otherwise.                                          *)

MaxSize == 3

MaxSeed == 1

MaxRuns == 3

NoSeed == -1

IntArg(v) == [isint |-> TRUE, v |-> v]

NotInt == [isint |-> FALSE, v |-> 0]

Args == {IntArg(v) : v \in 0..MaxSize} \cup {NotInt}

\* the Simplifier's variables when no Simplifier is in play
NoSimplifier ==
    /\ ts = <<>>
    /\ sample = <<>>
    /\ segs = <<>>
    /\ num_used_segments = 0
    /\ A = <<>>
    /\ S = <<>>
    /\ H = {}
    /\ node_table = <<>>
    /\ num_output_nodes = 0
    /\ M = <<>>
    /\ edgeset_table = <<>>
    /\ last_edgeset = <<>>
    /\ sites = <<>>
    /\ num_output_sites = 0
    /\ num_output_mutations = 0
    /\ calls = NoCalls
    /\ site_table = <<>>
    /\ mutation_table = <<>>
    /\ pc = "none"
    /\ pidx = 1
    /\ eidx = 1
    /\ cidx = 1
    /\ coalescence = FALSE
    /\ z = None
    /\ u = NoNode
    /\ drv = <<>>

\* lines 80-91; last, status and replicates are history: the method called
\* last, how it ended, and the number of runs that completed
TreeSimulator(sample_size) ==
    [sample_size |-> sample_size, num_loci |-> IntArg(1),
     random_seed |-> NoSeed, segment_block_size |-> None,
     avl_node_block_size |-> None, node_mapping_block_size |-> None,
     coalescence_record_block_size |-> None, max_memory |-> None,
     ll_sim |-> <<>>,
     last |-> "__init__", status |-> "ok", replicates |-> 0]

\* lines 138-139
set_num_loci(sm, num_loci) ==
    [sm EXCEPT !.num_loci = num_loci, !.last = "set_num_loci", !.status = "ok"]

\* lines 147-148
set_random_seed(sm, random_seed) ==
    [sm EXCEPT !.random_seed = random_seed, !.last = "set_random_seed",
               !.status = "ok"]

Max(a, b) == IF a > b THEN a ELSE b

\* lines 190-213, n and m being integers with n >= 2 and m >= 1: rho is
\* 4 (m - 1) at the recombination rate 1.0 of line 82, and the minimum of
\* line 191 is m // 2 because rho * harmonic_number(n - 1) is no less
FillDefaults(sm, n, m, seed) ==
    [sm EXCEPT
        !.avl_node_block_size =
            IF @ = None THEN Max(10, 4 * n + Max(10, m \div 2)) ELSE @,
        !.segment_block_size =
            IF @ = None THEN Max(10, (n * 4 * (m - 1)) \div 80) ELSE @,
        !.node_mapping_block_size =
            IF @ = None THEN Max(10, m \div 2) ELSE @,
        !.coalescence_record_block_size =
            IF @ = None THEN (16 * 1024) \div 32 ELSE @,
        !.random_seed = IF @ = NoSeed THEN seed ELSE @,
        !.max_memory = IF @ = None THEN 10 * 1024 * 1024 ELSE @]

\* lines 178-214, seed being what random.randint gives
set_environment_defaults(sm, seed) ==
    IF ~sm.sample_size.isint \/ ~sm.num_loci.isint
    THEN [sm EXCEPT !.status = "TypeError"]
    ELSE IF sm.sample_size.v < 2 \/ sm.num_loci.v < 1
         THEN [sm EXCEPT !.status = "ValueError"]
         ELSE FillDefaults(sm, sm.sample_size.v, sm.num_loci.v, seed)

\* the low-level simulator that lines 222-233 build and run
Simulator(sm) ==
    [sample_size |-> sm.sample_size.v, num_loci |-> sm.num_loci.v,
     random_seed |-> sm.random_seed, max_memory |-> sm.max_memory]

\* lines 222-245, skipped when _set_environment_defaults raised
Simulate(sm) ==
    IF sm.status # "ok" THEN sm
    ELSE [sm EXCEPT !.ll_sim = <<Simulator(sm)>>, !.replicates = @ + 1]

\* the assertion of line 221 left out
run_unguarded(sm, seed) ==
    Simulate(set_environment_defaults(
                 [sm EXCEPT !.last = "run", !.status = "ok"], seed))

\* lines 216-245
run(sm, seed) ==
    IF sm.ll_sim # <<>>
    THEN [sm EXCEPT !.last = "run", !.status = "AssertionError"]
    ELSE Simulate(set_environment_defaults(
                      [sm EXCEPT !.last = "run", !.status = "ok"], seed))

\* reset that also forgets the seed, so that the next run draws a new one
reset_clears_seed(sm) ==
    [sm EXCEPT !.ll_sim = <<>>, !.random_seed = NoSeed, !.last = "reset",
               !.status = "ok"]

\* lines 247-251
reset(sm) == [sm EXCEPT !.ll_sim = <<>>, !.last = "reset", !.status = "ok"]

InitSim ==
    /\ NoSimplifier
    /\ nwk = <<>>
    /\ \E a \in Args : tsim = TreeSimulator(a)

SimplifierIdle ==
    UNCHANGED <<ts, sample, segs, num_used_segments, A, S, node_table,
                edgeset_table, last_edgeset, sites, num_output_nodes,
                num_output_sites, num_output_mutations, M, site_table,
                mutation_table, pc, pidx, eidx, cidx, H, coalescence, z, u,
                calls, drv>>

SetNumLoci ==
    /\ \E a \in Args : tsim' = set_num_loci(tsim, a)
    /\ SimplifierIdle
    /\ UNCHANGED nwk

SetRandomSeed ==
    /\ \E seed \in 0..MaxSeed : tsim' = set_random_seed(tsim, seed)
    /\ SimplifierIdle
    /\ UNCHANGED nwk

\* a run that would complete is taken while fewer than MaxRuns have
Run ==
    /\ tsim.replicates < MaxRuns \/ tsim.ll_sim # <<>>
    /\ \E seed \in 0..MaxSeed : tsim' = run(tsim, seed)
    /\ SimplifierIdle
    /\ UNCHANGED nwk

Reset ==
    /\ tsim' = reset(tsim)
    /\ SimplifierIdle
    /\ UNCHANGED nwk

NextSim ==
    \/ SetNumLoci
    \/ SetRandomSeed
    \/ Run
    \/ Reset

SpecSim == InitSim /\ [][NextSim]_vars

----------------------------------------------------------------------------
(* TreeSequence.diffs and TreeSequence.newick_trees (trees.py)             *)

MaxTrees == 3

\* what diffs() hands on of a record: (children, parent, time)
Br(children, parent, time) ==
    [children |-> children, parent |-> parent, time |-> time]

\* complete binary trees over the samples 1..n, as the (children, parent,
\* time) of their internal nodes; a node has the same time wherever it
\* occurs
Shapes2 == {<<Br(<<1, 2>>, 3, 1)>>, <<Br(<<1, 2>>, 4, 2)>>}

Shapes3 ==
    {<<Br(<<1, 2>>, 4, 1), Br(<<3, 4>>, 5, 2)>>,
     <<Br(<<1, 3>>, 4, 1), Br(<<2, 4>>, 5, 2)>>,
     <<Br(<<2, 3>>, 4, 1), Br(<<1, 4>>, 5, 2)>>,
     <<Br(<<1, 2>>, 4, 1), Br(<<3, 4>>, 7, 3)>>,
     <<Br(<<1, 2>>, 6, 2), Br(<<3, 6>>, 7, 3)>>,
     <<Br(<<2, 3>>, 6, 2), Br(<<1, 6>>, 7, 3)>>}

Shapes4 ==
    {<<Br(<<1, 2>>, 5, 1), Br(<<3, 4>>, 6, 2), Br(<<5, 6>>, 7, 3)>>,
     <<Br(<<1, 3>>, 5, 1), Br(<<2, 4>>, 6, 2), Br(<<5, 6>>, 7, 3)>>,
     <<Br(<<1, 2>>, 5, 1), Br(<<3, 5>>, 6, 2), Br(<<4, 6>>, 7, 3)>>,
     <<Br(<<1, 2>>, 5, 1), Br(<<3, 4>>, 8, 2), Br(<<5, 8>>, 9, 4)>>,
     <<Br(<<1, 2>>, 5, 1), Br(<<4, 5>>, 6, 2), Br(<<3, 6>>, 9, 4)>>}

\* one tree per locus, the same sample size throughout
TreeLists ==
    UNION {{q \in AllSeqs(sh, MaxTrees) : Len(q) >= 1} :
               sh \in {Shapes2, Shapes3, Shapes4}}

\* the last locus of the run of trees from tree i on that hold br
RECURSIVE RunEnd(_, _, _)
RunEnd(trees, br, i) ==
    IF i < Len(trees) /\ br \in Range(trees[i + 1])
    THEN RunEnd(trees, br, i + 1)
    ELSE i

\* the records that start at locus i - 1
RECURSIVE StartingAt(_, _, _)
StartingAt(trees, i, k) ==
    IF k > Len(trees[i]) THEN <<>>
    ELSE IF i > 1 /\ trees[i][k] \in Range(trees[i - 1])
         THEN StartingAt(trees, i, k + 1)
         ELSE <<[left |-> i - 1, right |-> RunEnd(trees, trees[i][k], i),
                 children |-> trees[i][k].children,
                 parent |-> trees[i][k].parent,
                 time |-> trees[i][k].time]>>
              \o StartingAt(trees, i, k + 1)

\* the coalescence records of the trees, sorted by left
RECURSIVE RecordsFrom(_, _)
RecordsFrom(trees, i) ==
    IF i > Len(trees) THEN <<>>
    ELSE StartingAt(trees, i, 1) \o RecordsFrom(trees, i + 1)

\* lines 255-276: the fields of a TreeSequence that diffs and newick_trees
\* read
TreeSequence(trees) ==
    [sample_size |-> Len(trees[1]) + 1, num_loci |-> Len(trees),
     records |-> RecordsFrom(trees, 1)]

\* d[k] of a defaultdict(list)
Lookup(d, k) == IF k \in DOMAIN d THEN d[k] ELSE <<>>

\* lines 380-381, the record at pos
Take(g) ==
    [g EXCEPT
        !.used_records =
            SetKey(@, g.ts.records[g.pos].right,
                   Append(Lookup(@, g.ts.records[g.pos].right),
                          Br(g.ts.records[g.pos].children,
                             g.ts.records[g.pos].parent,
                             g.ts.records[g.pos].time))),
        !.records_in =
            Append(@, Br(g.ts.records[g.pos].children,
                         g.ts.records[g.pos].parent,
                         g.ts.records[g.pos].time)),
        !.pos = @ + 1]

\* lines 374-381: the loop of diffs up to the next record with l != left
RECURSIVE Gather(_)
Gather(g) ==
    IF g.pos <= Len(g.ts.records) /\ g.ts.records[g.pos].left = g.left
    THEN Gather(Take(g))
    ELSE g

\* lines 377-379: diffs resumed after a yield inside the loop
Resume(g) ==
    IF g.yielded = 0 THEN g
    ELSE [g EXCEPT !.used_records = DelKey(@, g.left), !.records_in = <<>>,
                   !.left = g.ts.records[g.pos].left]

\* lines 376 and 382: what diffs yields, and whether it was its last yield
Yielded(g) ==
    [g EXCEPT !.records_out = Lookup(g.used_records, g.left),
              !.exhausted = g.pos > Len(g.ts.records)]

\* lines 369-382: diffs() run to its next yield
diffs(g) == Yielded(Gather(Resume(g)))

\* line 402, the del of tau[parent], left out
RemoveRecord_keeps_tau(g, rec) ==
    IF \/ rec.parent \notin DOMAIN g.c
       \/ rec.parent \notin DOMAIN g.tau
       \/ rec.children[1] \notin DOMAIN g.pi
       \/ rec.children[2] \notin DOMAIN g.pi \ {rec.children[1]}
       \/ rec.children[1] \notin DOMAIN g.branch_lengths
       \/ rec.children[2] \notin DOMAIN g.branch_lengths \ {rec.children[1]}
    THEN [g EXCEPT !.status = "KeyError"]
    ELSE [g EXCEPT
             !.c = DelKey(@, rec.parent),
             !.pi = DelKey(DelKey(@, rec.children[1]), rec.children[2]),
             !.branch_lengths =
                 DelKey(DelKey(@, rec.children[1]), rec.children[2]),
             !.root = IF rec.parent = @ THEN 1 ELSE @]

\* lines 401-407: a record that ends here; del of a missing key raises
RemoveRecord(g, rec) ==
    IF \/ rec.parent \notin DOMAIN g.c
       \/ rec.parent \notin DOMAIN g.tau
       \/ rec.children[1] \notin DOMAIN g.pi
       \/ rec.children[2] \notin DOMAIN g.pi \ {rec.children[1]}
       \/ rec.children[1] \notin DOMAIN g.branch_lengths
       \/ rec.children[2] \notin DOMAIN g.branch_lengths \ {rec.children[1]}
    THEN [g EXCEPT !.status = "KeyError"]
    ELSE [g EXCEPT
             !.c = DelKey(@, rec.parent),
             !.tau = DelKey(@, rec.parent),
             !.pi = DelKey(DelKey(@, rec.children[1]), rec.children[2]),
             !.branch_lengths =
                 DelKey(DelKey(@, rec.children[1]), rec.children[2]),
             !.root = IF rec.parent = @ THEN 1 ELSE @]

\* lines 400-407
RECURSIVE RemoveAll(_, _)
RemoveAll(g, i) ==
    IF i > Len(g.records_out) \/ g.status # "ok" THEN g
    ELSE RemoveAll(RemoveRecord(g, g.records_out[i]), i + 1)

\* lines 413-414, tau[parent] being set: tau[root] raises when root is gone
Reroot(g, rec) ==
    IF g.root \notin DOMAIN g.tau THEN [g EXCEPT !.status = "KeyError"]
    ELSE IF rec.time > g.tau[g.root] THEN [g EXCEPT !.root = rec.parent]
         ELSE g

\* lines 409-414: a record that starts here
AddRecord(g, rec) ==
    Reroot([g EXCEPT
               !.c = SetKey(@, rec.parent, rec.children),
               !.pi = SetKey(SetKey(@, rec.children[1], rec.parent),
                             rec.children[2], rec.parent),
               !.tau = SetKey(@, rec.parent, rec.time)],
           rec)

\* lines 408-414
RECURSIVE AddAll(_, _)
AddAll(g, i) ==
    IF i > Len(g.records_in) \/ g.status # "ok" THEN g
    ELSE AddAll(AddRecord(g, g.records_in[i]), i + 1)

\* lines 417-419; the times are whole numbers here, and the branch length
\* is kept as the difference that format() prints
UpdateBranch(g, rec) ==
    IF rec.children[1] \notin DOMAIN g.tau \/ rec.children[2] \notin DOMAIN g.tau
    THEN [g EXCEPT !.status = "KeyError"]
    ELSE [g EXCEPT !.branch_lengths =
             SetKey(SetKey(@, rec.children[1],
                           rec.time - g.tau[rec.children[1]]),
                    rec.children[2], rec.time - g.tau[rec.children[2]])]

\* lines 416-419
RECURSIVE UpdateAll(_, _)
UpdateAll(g, i) ==
    IF i > Len(g.records_in) \/ g.status # "ok" THEN g
    ELSE UpdateAll(UpdateBranch(g, g.records_in[i]), i + 1)

\* lines 424-427
CheckTree(g) ==
    IF g.status # "ok" THEN g
    ELSE IF /\ Cardinality(DOMAIN g.c) = g.ts.sample_size - 1
            /\ Cardinality(DOMAIN g.tau) = 2 * g.ts.sample_size - 1
            /\ Cardinality(DOMAIN g.pi) = 2 * g.ts.sample_size - 2
            /\ Cardinality(DOMAIN g.branch_lengths) = 2 * g.ts.sample_size - 2
         THEN g
         ELSE [g EXCEPT !.status = "AssertionError"]

\* lines 429-431: up from node 1 while it has a parent
RECURSIVE Ascend(_, _, _)
Ascend(pi, j, fuel) ==
    IF j \in DOMAIN pi /\ fuel > 0 THEN Ascend(pi, pi[j], fuel - 1) ELSE j

\* lines 429-433: the root is found and the tree is yielded, unless the
\* walk goes round a cycle of pi for ever
YieldTree(g) ==
    IF g.status # "ok" THEN g
    ELSE IF Ascend(g.pi, 1, Cardinality(DOMAIN g.pi)) \in DOMAIN g.pi
         THEN [g EXCEPT !.status = "no return"]
         ELSE [g EXCEPT !.root = Ascend(g.pi, 1, Cardinality(DOMAIN g.pi)),
                        !.yielded = @ + 1]

\* lines 387-391 and 370-373: the generator before its first next();
\* yielded counts the trees it has yielded
newick_trees(t) ==
    [ts |-> t, pos |-> 1, left |-> 0, used_records |-> <<>>,
     records_in |-> <<>>, records_out |-> <<>>, exhausted |-> FALSE,
     c |-> <<>>, branch_lengths |-> <<>>,
     tau |-> [j \in 1..t.sample_size |-> 0], pi |-> <<>>, root |-> 1,
     status |-> "ok", yielded |-> 0]

\* lines 392-433: one pass of the loop body
NextTree(g) ==
    YieldTree(CheckTree(UpdateAll(AddAll(RemoveAll(diffs(g), 1), 1), 1)))

InitNewick ==
    /\ NoSimplifier
    /\ tsim = <<>>
    /\ \E trees \in TreeLists : nwk = newick_trees(TreeSequence(trees))

\* next() on the generator while diffs() has more to yield
NewickNext ==
    /\ nwk.status = "ok"
    /\ ~nwk.exhausted
    /\ nwk' = NextTree(nwk)
    /\ SimplifierIdle
    /\ UNCHANGED tsim

\* next() after the last diff: the loop of line 392 ends
NewickStop ==
    /\ nwk.status = "ok"
    /\ nwk.exhausted
    /\ nwk' = [nwk EXCEPT !.status = "StopIteration"]
    /\ SimplifierIdle
    /\ UNCHANGED tsim

NextNewick ==
    \/ NewickNext
    \/ NewickStop

SpecNewick == InitNewick /\ [][NextNewick]_vars

----------------------------------------------------------------------------

(* Properties of the output *)

n == Len(sample)

\* the rows of the edgeset table together with the pending squash buffer
Emitted == IF last_edgeset = <<>> THEN edgeset_table
           ELSE Append(edgeset_table, last_edgeset)

\* the (child, parent) pairs of the tree at coordinate x
ParentsAt(edgesets, x) ==
    {cp \in UNION {{<<edgesets[i].children[k], edgesets[i].parent>> :
                        k \in 1..Len(edgesets[i].children)} :
                   i \in {j \in 1..Len(edgesets) :
                            edgesets[j].left <= x /\ x < edgesets[j].right}} : TRUE}

\* C1: when simplify returns, the outstanding segment counter is 0
C1_SegmentLeakFree == pc = "done" => num_used_segments = 0

Canonical(e) ==
    /\ e.left < e.right
    /\ Len(e.children) >= 1
    /\ \A i \in 1..(Len(e.children) - 1) : e.children[i] < e.children[i + 1]
    /\ e.parent \notin Range(e.children)

\* C2: every row of the output edgeset table has left < right, a non-empty
\* strictly ascending children list, and a parent that is not a child
C2_EdgesetCanonical ==
    \A i \in 1..Len(edgeset_table) : Canonical(edgeset_table[i])

C2_Witness ==
    /\ pc = "done"
    /\ \E i \in 1..Len(edgeset_table) :
           /\ Len(edgeset_table[i].children) >= 2
           /\ edgeset_table[i].left > 0
    /\ \E i \in 1..n : \E j \in 1..n : i < j /\ sample[i] > sample[j]

\* C3: no two adjacent rows of the output edgeset table have the same parent,
\* the same children and R1 = L2; the two abutting input edgesets of TsAbut
\* come out as one row
C3_SquashComplete ==
    /\ \A i \in 1..(Len(edgeset_table) - 1) :
           ~ /\ edgeset_table[i].parent = edgeset_table[i + 1].parent
             /\ edgeset_table[i].children = edgeset_table[i + 1].children
             /\ edgeset_table[i].right = edgeset_table[i + 1].left
    /\ (pc = "done" /\ ts = TsAbut /\ sample = <<0, 1>>)
           => edgeset_table = <<Es(0, 10, 2, <<0, 1>>)>>

C3_Witness ==
    /\ pc = "done"
    /\ ts = TsAbut
    /\ sample = <<0, 1>>
    /\ Len(edgeset_table) = 1
    /\ edgeset_table[1].left = 0
    /\ edgeset_table[1].right = 10

\* C4: in the output, the time of the parent of every edgeset is strictly
\* greater than the time of each of its children
C4_TimeMonotone ==
    \A i \in 1..Len(edgeset_table) :
        \A k \in 1..Len(edgeset_table[i].children) :
            node_table[edgeset_table[i].parent + 1].time >
                node_table[edgeset_table[i].children[k] + 1].time

C4_Witness ==
    /\ pc = "done"
    /\ Len(edgeset_table) >= 3
    /\ \E i \in 1..Len(edgeset_table) :
           \E k \in 1..Len(edgeset_table[i].children) :
               edgeset_table[i].children[k] >= n

C6_RoundTrip ==
    (/\ pc = "done"
     /\ Range(sample) = Samples(ts)
     /\ \A i \in 1..(n - 1) : sample[i] < sample[i + 1])
    => \A x \in 0..(ts.m - 1) :
           {<<M[cp[1] + 1], M[cp[2] + 1]>> : cp \in ParentsAt(edgeset_table, x)}
               = ParentsAt(ts.edgesets, x)

\* C8: a node outside the sample list under which no two lineages overlap
\* gets no output row and no edgeset and hands its lineage on under the
\* child's output id; TsPairs with sample [0,2] gives the single edgeset
\* (0,10,2,[0,1]) with output node 2 at time 2
C8_UnaryRemoved ==
    /\ \A k \in (n + 1)..Len(M) :
           \E i \in 1..Len(Emitted) :
               /\ Emitted[i].parent = k - 1
               /\ Len(Emitted[i].children) >= 2
    /\ (pc = "merge" /\ ~coalescence /\ z # None)
           => /\ segs[z].node < Len(M)
              /\ M[segs[z].node + 1] # input_id
              /\ input_id \notin Range(M) \ Range(sample)
    /\ (pc = "done" /\ ts = TsPairs /\ sample = <<0, 2>>)
           => /\ edgeset_table = <<Es(0, 10, 2, <<0, 1>>)>>
              /\ Len(node_table) = 3
              /\ node_table[3].time = 2

C8_Witness ==
    /\ pc = "done"
    /\ ts = TsPairs
    /\ sample = <<0, 2>>
    /\ Len(edgeset_table) = 1
    /\ M = <<0, 2, 6>>

\* C9: for every call record_mutations(input_id, left, right, output_id) and
\* every input mutation on input_id at a site in [left, right), the output
\* sites hold a site at that position, with the ancestral state copied, and
\* a mutation on output_id with the same derived state
C9_MutationsRemapped ==
    \A c \in Range(calls.mutations) :
        \A sm \in MatchingMutations(ts, c.input_id, c.left, c.right) :
            LET site == ts.sites[sm[1]]
            IN /\ site.position \in DOMAIN sites
               /\ sites[site.position].ancestral_state = site.ancestral_state
               /\ \E k \in 1..Len(sites[site.position].mutations) :
                      sites[site.position].mutations[k] =
                          Mu(c.output_id, site.mutations[sm[2]].derived_state)

\* C10: the output ids of the nodes outside the sample list are given out
\* consecutively from n in the order (time, input id) of their input nodes;
\* TsPairs with sample [0,1,2,3] gives its own edgesets with parents 4, 5, 6
C10_ConsecutiveIds ==
    /\ num_output_nodes = Len(node_table)
    /\ \A k \in (n + 2)..Len(M) : ParentBefore(ts, M[k - 1], M[k])
    /\ (pc = "merge" /\ coalescence /\ input_id \notin Range(sample))
           => /\ u = Len(node_table) - 1
              /\ u >= n
              /\ M[u + 1] = input_id
    /\ (pc = "done" /\ ts = TsPairs /\ sample = <<0, 1, 2, 3>>)
           => edgeset_table = <<Es(0, 10, 4, <<0, 1>>), Es(0, 10, 5, <<2, 3>>),
                                Es(0, 10, 6, <<4, 5>>)>>

C10_Witness ==
    /\ pc = "done"
    /\ ts = TsPairs
    /\ sample = <<0, 1, 2, 3>>
    /\ Len(node_table) = 7

\* the segments of the chain that starts at x, following next
RECURSIVE ChainFrom(_, _, _)
ChainFrom(sg, x, fuel) ==
    IF x = None \/ fuel = 0 THEN <<>>
    ELSE <<x>> \o ChainFrom(sg, sg[x].next, fuel - 1)

Chain(sg, x) == ChainFrom(sg, x, Len(sg))

SortedChain(sg, x) ==
    /\ \A i \in 1..Len(Chain(sg, x)) :
           sg[Chain(sg, x)[i]].left < sg[Chain(sg, x)[i]].right
    /\ \A i \in 1..(Len(Chain(sg, x)) - 1) :
           sg[Chain(sg, x)[i]].right <= sg[Chain(sg, x)[i + 1]].left

\* C11: in every reachable state, every chain that starts at an entry of A
\* or at a head in H has left < right in each segment and a.right <= b.left
\* for each adjacent pair a, b
C11_ChainSorted ==
    /\ \A k \in DOMAIN A : SortedChain(segs, A[k])
    /\ \A h \in H : SortedChain(segs, h)

\* a chain of A that remove_ancestry has cut a middle piece out of
C11_Witness ==
    /\ pc = "merge"
    /\ H # {}
    /\ \E k \in DOMAIN A :
           /\ Len(Chain(segs, A[k])) >= 2
           /\ segs[Chain(segs, A[k])[1]].right < segs[Chain(segs, A[k])[2]].left

\* C12: a sample list that names an input id twice is rejected: no
\* Simplifier state is built from it and no output is returned
C12_DuplicatesRejected ==
    HasDuplicates(sample) =>
        /\ pc \in {"new", "error"}
        /\ segs = <<>>
        /\ node_table = <<>>
        /\ DOMAIN A = {}

\* C13: when the main loop has finished with the outstanding segment
\* counter nonzero, simplify fails instead of returning its output
C13_LeakAsserted ==
    [][(pc = "flush" /\ num_used_segments # 0) => pc' = "error"]_vars

\* the parent of node in the input tree at coordinate x, NoNode at a root
InputParentAt(t, node, x) ==
    IF \E i \in 1..Len(t.edgesets) :
           /\ t.edgesets[i].left <= x /\ x < t.edgesets[i].right
           /\ node \in Range(t.edgesets[i].children)
    THEN t.edgesets[CHOOSE i \in 1..Len(t.edgesets) :
                        /\ t.edgesets[i].left <= x /\ x < t.edgesets[i].right
                        /\ node \in Range(t.edgesets[i].children)].parent
    ELSE NoNode

\* the allele that node carries at a site of the input: the derived state of
\* the nearest mutation on the path from node to the root, or else the
\* ancestral state
RECURSIVE AlleleAt(_, _, _, _)
AlleleAt(t, node, site, fuel) ==
    IF \E k \in 1..Len(site.mutations) : site.mutations[k].node = node
    THEN site.mutations[CHOOSE k \in 1..Len(site.mutations) :
                            site.mutations[k].node = node].derived_state
    ELSE IF fuel = 0 \/ InputParentAt(t, node, site.position) = NoNode
         THEN site.ancestral_state
         ELSE AlleleAt(t, InputParentAt(t, node, site.position), site,
                       fuel - 1)

\* the sites record_mutations has been called for in __init__: those with a
\* mutation on a node of the sample list
SitesOfSamples(t, samp) ==
    {i \in 1..Len(t.sites) :
        \E k \in 1..Len(t.sites[i].mutations) :
            t.sites[i].mutations[k].node \in Range(samp)}

\* C14: after an iteration of merge_labeled_ancestors that found the overlap
\* count at l equal to the number of heads (it records an edgeset over
\* [l, r) and allocates no segment), every site recorded for the output
\* with position in [l, r) has the allele of input_id as its ancestral state
C14_AncestralStateUpdated ==
    (/\ pc \in {"merge", "error"}
     /\ Len(calls.edgesets) = 1
     /\ calls.mutations = <<>>)
    => \A i \in SitesOfSamples(ts, sample) :
           (/\ ts.sites[i].position >= calls.edgesets[1].left
            /\ ts.sites[i].position < calls.edgesets[1].right)
           => /\ ts.sites[i].position \in DOMAIN sites
              /\ sites[ts.sites[i].position].ancestral_state =
                     AlleleAt(ts, input_id, ts.sites[i], Len(ts.nodes))

\* the number of segments, over all chains stored in A, that cover x
CoverCount(sg, Am, x) ==
    Cardinality({i \in UNION {Range(Chain(sg, Am[k])) : k \in DOMAIN Am} :
                    sg[i].left <= x /\ x < sg[i].right})

\* C17: at the start of every iteration of the loop over the parents and
\* when the loop has ended, S at the floor key of each coordinate x of
\* [0, m) is the number of segments of the chains of A that cover x
C17_OverlapCount ==
    pc \in {"loop", "flush"} =>
        \A x \in 0..(ts.m - 1) : S[floor_key(S, x)] = CoverCount(segs, A, x)

\* the samples are the nodes that are no parent of an edgeset
LeafSamples == \A i \in 1..Len(ts.edgesets) : ts.edgesets[i].parent \notin Range(sample)

C17_LeafOnly == LeafSamples => C17_OverlapCount

\* the segments of the chains that start at heads which cover x with label k
Covering(sg, heads, x, k) ==
    {i \in UNION {Range(Chain(sg, h)) : h \in heads} :
        sg[i].left <= x /\ x < sg[i].right /\ sg[i].node = k}

\* the intervals and labels of the chain that starts at x
ChainContent(sg, x) ==
    [i \in 1..Len(Chain(sg, x)) |->
        <<sg[Chain(sg, x)[i]].left, sg[Chain(sg, x)[i]].right,
          sg[Chain(sg, x)[i]].node>>]

HeadsOf(Am) == {Am[a] : a \in DOMAIN Am}

\* what one step of remove_ancestry (child c of edgeset e) does with the
\* ancestry (x, k) held by the chain of node a
AncestryKept(a, c, e, x, k) ==
    IF a = c /\ e.left <= x /\ x < e.right
    THEN /\ Cardinality(Covering(segs', H', x, k)) = 1
         /\ Covering(segs', HeadsOf(A'), x, k) = {}
    ELSE /\ a \in DOMAIN A'
         /\ Cardinality(Covering(segs', {A'[a]}, x, k)) = 1
         /\ Cardinality(Covering(segs', HeadsOf(A'), x, k)) = 1
         /\ Covering(segs', H', x, k) = {}

\* C18: a step of remove_ancestry neither loses nor duplicates ancestry:
\* every (coordinate, label) covered by the chain of a node of A is covered
\* afterwards by exactly one segment, in a chain headed in H when the node
\* is the child and the coordinate lies in the edgeset, in the node's chain
\* in A otherwise; the chains of the other nodes are unchanged
C18_RemoveAncestryFrame ==
    [][pc = "remove" =>
        /\ \A a \in DOMAIN A : \A x \in 0..(ts.m - 1) :
               \A k \in {segs[i].node : i \in Range(Chain(segs, A[a]))} :
                   Covering(segs, {A[a]}, x, k) # {}
                       => AncestryKept(a, edgeset.children[cidx], edgeset, x, k)
        /\ \A a \in DOMAIN A \ {edgeset.children[cidx]} :
               /\ a \in DOMAIN A'
               /\ ChainContent(segs', A'[a]) = ChainContent(segs, A[a])
        /\ \A h \in H : h \in H' /\ ChainContent(segs', h) = ChainContent(segs, h)
      ]_vars

\* a step that moved the middle of a chain to H and left both ends in A
C18_Witness ==
    /\ pc \in {"remove", "merge"}
    /\ \E h \in H : \E a \in DOMAIN A :
           /\ segs[A[a]].node = segs[h].node
           /\ Len(Chain(segs, A[a])) >= 2
           /\ segs[A[a]].right = segs[h].left
           /\ segs[Chain(segs, A[a])[2]].left >= segs[h].right

\* the heads that the next iteration of merge_labeled_ancestors pops
NextHeads == {h \in H : segs[h].left = MinLeft(segs, H)}

\* the call record_mutations(input_id, alpha.left, alpha.right, alpha.node)
\* for the segment alpha
TailCall(sg, alpha) ==
    [input_id |-> input_id, left |-> sg[alpha].left, right |-> sg[alpha].right,
     output_id |-> sg[alpha].node]

\* a new segment over the interval of the edgeset just recorded, labelled
\* with its parent, is the tail of the chain of input_id, and
\* record_mutations was called for it
AlphaAppended ==
    /\ Len(segs') = Len(segs) + 1
    /\ z' = Len(segs')
    /\ Len(calls'.edgesets) = 1
    /\ segs'[z'].left = calls'.edgesets[1].left
    /\ segs'[z'].right = calls'.edgesets[1].right
    /\ segs'[z'].node = calls'.edgesets[1].parent
    /\ segs'[z'].next = None
    /\ segs'[z'].prev = z
    /\ input_id \in DOMAIN A'
    /\ IF z = None THEN A'[input_id] = z'
       ELSE /\ segs'[z].next = z'
            /\ A'[input_id] = A[input_id]
            /\ z \in Range(Chain(segs', A'[input_id]))
    /\ calls'.mutations = <<TailCall(segs', z')>>

RowsAbove(edgesets, c, x) ==
    {i \in 1..Len(edgesets) :
        /\ edgesets[i].left <= x /\ x < edgesets[i].right
        /\ c \in Range(edgesets[i].children)}

\* the rows of edgesets under parent p that cover x
RowsOf(edgesets, p, x) ==
    {i \in 1..Len(edgesets) :
        /\ edgesets[i].left <= x /\ x < edgesets[i].right
        /\ edgesets[i].parent = p}

\* the edgesets recorded so far: the table once the buffer has been flushed
\* into it, the table and the pending edgeset before
Recorded == IF pc \in {"done", "error"} THEN edgeset_table ELSE Emitted

\* C20: in the output, at every coordinate every node is a child in at most
\* one edgeset, and at most one edgeset of each parent covers it
C20_SingleParent ==
    \A x \in 0..(ts.m - 1) : \A c \in 0..(Len(node_table) - 1) :
        /\ Cardinality(RowsAbove(Recorded, c, x)) <= 1
        /\ Cardinality(RowsOf(Recorded, c, x)) <= 1

\* an output in which a node changes its parent along the sequence
C20_Witness ==
    /\ pc = "done"
    /\ \E c \in 0..(Len(node_table) - 1) :
           \E x, y \in 0..(ts.m - 1) :
               /\ RowsAbove(edgeset_table, c, x) # {}
               /\ RowsAbove(edgeset_table, c, y) # {}
               /\ RowsAbove(edgeset_table, c, x) # RowsAbove(edgeset_table, c, y)

\* C15: run() starts only when no low-level simulator exists: called while
\* one exists it fails its assertion and changes nothing, and called after
\* reset() it is accepted and, its arguments being sane, performs another
\* replicate
C15_RunNeedsReset ==
    [][tsim'.last = "run" =>
          IF tsim.ll_sim # <<>>
          THEN /\ tsim'.status = "AssertionError"
               /\ tsim'.ll_sim = tsim.ll_sim
               /\ tsim'.replicates = tsim.replicates
          ELSE /\ tsim'.status # "AssertionError"
               /\ (tsim.sample_size.isint /\ tsim.sample_size.v >= 2 /\
                   tsim.num_loci.isint /\ tsim.num_loci.v >= 1)
                      => /\ tsim'.status = "ok"
                         /\ tsim'.ll_sim # <<>>
                         /\ tsim'.replicates = tsim.replicates + 1]_vars

\* run, reset, run, and then a run that was not preceded by reset
C15_Witness ==
    /\ tsim.last = "run"
    /\ tsim.status = "AssertionError"
    /\ tsim.replicates >= 2

\* C21: when the main loop ends with nothing in the squash buffer, the
\* flush adds nothing and simplify returns the n sample nodes and an empty
\* edgeset table
C21_EmptyFlush ==
    [][(pc = "flush" /\ last_edgeset = <<>>) =>
          /\ pc' = "done"
          /\ edgeset_table' = <<>>
          /\ Len(node_table') = n]_vars

\* C22: an iteration of merge_labeled_ancestors that finds an entry of A
\* under input_id leaves that entry as it is
C22_NoOverwrite ==
    [][(pc = "merge" /\ H # {} /\ input_id \in DOMAIN A) =>
          /\ input_id \in DOMAIN A'
          /\ A'[input_id] = A[input_id]]_vars

\* prev and next of the chain that starts at x agree
LinkedChain(sg, x) ==
    /\ sg[x].prev = None
    /\ sg[Chain(sg, x)[Len(Chain(sg, x))]].next = None
    /\ \A i \in 1..(Len(Chain(sg, x)) - 1) :
           sg[Chain(sg, x)[i + 1]].prev = Chain(sg, x)[i]

\* C23: between the operations of the main loop every chain stored in A is
\* a consistent doubly-linked list: the head has no prev, the tail has no
\* next, and b.prev = a whenever a.next = b
C23_LinksConsistent ==
    pc \in {"loop", "flush", "done"} =>
        \A k \in DOMAIN A : LinkedChain(segs, A[k])

\* C24: every output row added by check_or_record_node for an input node
\* that is not in the sample list has that node's time and population and
\* its flags with the IS_SAMPLE bit cleared
C24_NonSampleFlags ==
    \A i \in (n + 1)..Len(node_table) :
        /\ node_table[i].time = NodeOf(ts, M[i]).time
        /\ node_table[i].population = NodeOf(ts, M[i]).population
        /\ node_table[i].flags =
               NodeOf(ts, M[i]).flags
                   - BitAnd(NodeOf(ts, M[i]).flags, NODE_IS_SAMPLE)
        /\ BitAnd(node_table[i].flags, NODE_IS_SAMPLE) = 0

\* what an iteration of merge_labeled_ancestors leaves behind: the fields
\* of the Simplifier, the locals that live across iterations and whether
\* it raised
Persistent(st) ==
    <<st.segs, st.used, st.A, st.S, st.H, st.node_table, st.num_output_nodes,
      st.edgeset_table, st.last_edgeset, st.sites, st.num_output_sites,
      st.num_output_mutations, st.coalescence, st.z, st.u, st.raised>>

\* every order in which the heads with the least left can be delivered,
\* whatever breaks the ties
TieOrders(sg, heap) ==
    {q \in DistinctSeqs({h \in heap : sg[h].left = MinLeft(sg, heap)},
                        Cardinality(heap)) :
        Len(q) = Cardinality({h \in heap : sg[h].left = MinLeft(sg, heap)})}

\* C25: an iteration of merge_labeled_ancestors leaves the same Simplifier
\* state whatever the order in which the heads with equal left come out of
\* H, so the node table and the edgeset table of a run are determined by
\* the input and the sample list
C25_TieIndependent ==
    [][(pc = "merge" /\ H # {}) =>
          \A X \in TieOrders(segs, H) :
              Persistent(MergeIteration(Cur, ts, sample, input_id, X)) =
                  <<segs', num_used_segments', A', S', H', node_table',
                    num_output_nodes', edgeset_table', last_edgeset', sites',
                    num_output_sites', num_output_mutations', coalescence',
                    z', u', pc' = "error">>]_vars

\* an overlap whose heads came out of H in an order that is not the order
\* of their nodes
C25_Witness ==
    /\ pc = "merge"
    /\ Len(calls.edgesets) = 1
    /\ calls.edgesets[1].children # Sorted(calls.edgesets[1].children)

\* C26: every run of simplify comes to an end, returning or raising; in
\* the loop of merge_labeled_ancestors the least left of the heads in H
\* grows with every iteration until H is empty, and the main loop moves on
\* to the next input node after every parent
C26_Terminates ==
    /\ <>(~Running)
    /\ [][(pc = "merge" /\ H # {} /\ pc' = "merge" /\ H' # {}) =>
             MinLeft(segs', H') > MinLeft(segs, H)]_vars
    /\ [][(pc = "merge" /\ H = {}) => pidx' = pidx + 1]_vars
    /\ [][pidx' >= pidx]_vars

\* a run that returned after a merge loop of more than one iteration
C26_Witness ==
    /\ pc = "done"
    /\ H = {}
    /\ Len(edgeset_table) >= 2
    /\ \E i \in 1..(Len(edgeset_table) - 1) :
           edgeset_table[i].parent = edgeset_table[i + 1].parent

\* C27: every call of record_edgeset passes at least two children, and no
\* row of the output edgeset table, flushed or pending, has fewer
C27_NoUnaryEdge ==
    /\ \A i \in 1..Len(calls.edgesets) : Len(calls.edgesets[i].children) >= 2
    /\ \A i \in 1..Len(Recorded) : Len(Recorded[i].children) >= 2

\* an iteration that found a single head under a parent: it hands the head
\* on and calls record_edgeset not at all, rows of earlier parents pending
C27_Witness ==
    /\ pc = "merge"
    /\ z # None
    /\ ~coalescence
    /\ calls.edgesets = <<>>
    /\ last_edgeset # <<>>

\* C28: down the rows recorded so far the time of the parent never
\* decreases, the rows of one parent are contiguous, and the rows of one
\* parent have strictly increasing left
C28_RowOrder ==
    \A i, j \in 1..Len(Recorded) :
        i < j =>
            /\ node_table[Recorded[i].parent + 1].time
                   <= node_table[Recorded[j].parent + 1].time
            /\ Recorded[i].parent = Recorded[j].parent
                   => /\ Recorded[i].left < Recorded[j].left
                      /\ \A k \in i..j : Recorded[k].parent = Recorded[i].parent

\* an output with two rows of one parent followed by a row of a later one
C28_Witness ==
    /\ pc = "done"
    /\ \E i \in 1..(Len(edgeset_table) - 2) :
           /\ edgeset_table[i].parent = edgeset_table[i + 1].parent
           /\ edgeset_table[i + 1].parent # edgeset_table[i + 2].parent

\* C29: reset() changes the low-level simulator handle and nothing else, so
\* the seed and the block sizes that the run before it filled in are still
\* there, and the run() that follows reset() hands the simulator the seed
\* that the run before reset() used
C29_ResetFrame ==
    [][/\ tsim'.last = "reset" =>
              /\ tsim'.ll_sim = <<>>
              /\ [tsim' EXCEPT !.ll_sim = tsim.ll_sim, !.last = tsim.last,
                               !.status = tsim.status] = tsim
              /\ (tsim.last = "run" /\ tsim.status = "ok") =>
                     /\ tsim'.random_seed = tsim.ll_sim[1].random_seed
                     /\ tsim'.segment_block_size # None
                     /\ tsim'.max_memory # None
       /\ (tsim.last = "reset" /\ tsim'.last = "run" /\ tsim'.status = "ok"
              /\ tsim.random_seed # NoSeed) =>
              tsim'.ll_sim[1].random_seed = tsim.random_seed]_vars

\* a second replicate, run after reset()
C29_Witness ==
    /\ tsim.last = "run"
    /\ tsim.status = "ok"
    /\ tsim.replicates = 2
    /\ tsim.ll_sim # <<>>

\* C30: on the records of complete binary trees newick_trees raises
\* nothing, and at every tree it yields the child map has n - 1 entries,
\* tau has 2n - 1, and pi and branch_lengths have 2n - 2 each
C30_NewickAssertions ==
    /\ nwk.status \in {"ok", "StopIteration"}
    /\ nwk.yielded > 0 =>
           /\ Cardinality(DOMAIN nwk.c) = nwk.ts.sample_size - 1
           /\ Cardinality(DOMAIN nwk.tau) = 2 * nwk.ts.sample_size - 1
           /\ Cardinality(DOMAIN nwk.pi) = 2 * nwk.ts.sample_size - 2
           /\ Cardinality(DOMAIN nwk.branch_lengths)
                  = 2 * nwk.ts.sample_size - 2
    /\ nwk.status = "StopIteration" => nwk.yielded >= 1

\* the third tree of a sequence has been yielded, after a diff that took
\* records out and put records in while another record stayed
C30_Witness ==
    /\ nwk.status = "ok"
    /\ nwk.yielded = 3
    /\ nwk.records_out # <<>>
    /\ Len(nwk.records_in) < nwk.ts.sample_size - 1
    /\ \E i \in 1..Len(nwk.ts.records) :
           nwk.ts.records[i].right - nwk.ts.records[i].left >= 2

\* C7: for S2 drawn from S, simplify(simplify(ts0, S), S2) gives the same
\* node table and the same edgeset table as simplify(ts0, S2)
C7_NestedIdempotent ==
    (drv.phase = "direct" /\ pc \in {"done", "error"}) => Result = drv.nested

====
